---- MODULE Spec2Model ----
(***************************************************************************)
(* A model of rsdot: the relocate-and-link procedure of `add`              *)
(* (move_and_symlink / move_recursive), the status walk, and sync.         *)
(* The filesystem is a map from physical paths to nodes; std::fs calls are *)
(* operators over it with the semantics of the unix implementation.       *)
(***************************************************************************)
EXTENDS Integers, Sequences, FiniteSets, TLC

VARIABLES
    \* ---- add (move_and_symlink) ----
    fs,        \* the filesystem: physical path (sequence of names) -> node
    to,        \* the target directory, vault.join(conf_name)
    files,     \* the batch of input paths, in the given order
    idx,       \* position of the loop `for f in files` (1-based)
    pc,        \* position inside move_and_symlink
    stack,     \* the frames of move_recursive, innermost last
    fcan,      \* f_can_file of the current path
    hist,      \* per processed path: what happened to it
    err,       \* the step that returned the error, "" if none
    \* ---- sync ----
    repo,      \* Option<&Repository>: TRUE when a repository is attached
    wt,        \* the working tree: path -> content version (0: no file)
    ignored,   \* the paths the repository's ignore rules match
    index,     \* the index file on disk: path -> content version
    memIndex,  \* the in-memory index object `index`
    commits,   \* the commit objects; a commit's id is its position
    headRef,   \* HEAD: symbolic (a branch name) or detached (a commit id)
    refs,      \* refs/heads: branch -> commit id (0: no such ref)
    remote,    \* the remote "origin": present, and its refs/heads
    sigOk,     \* user.name and user.email are configured
    push,      \* the --push flag
    spc,       \* position inside sync's execute
    treeId,    \* tree_id, the tree written from the index
    parentId,  \* parent_commit
    serr,      \* the error sync returned, "" if none
    pushes,    \* the pushes attempted so far
    s0,        \* the repository as it was when sync was called
    \* ---- status ----
    entries,   \* what fs::read_dir(vault) yields, in the filesystem's order
    hasRepo,   \* Option<&Repository> of status: TRUE when attached
    stpc,      \* position inside status's execute
    confs,     \* the Vec `confs` (the names; the path is vault/name)
    ci,        \* position of the loop `for (conf_name, conf_path) in confs`
    walk,      \* what WalkDir yields for the current configuration
    found,     \* the Vec `files` of the current configuration
    fi,        \* position of the loop `for file_status in files`
    lines,     \* the file lines printed for the current configuration
    shown,     \* the configurations printed so far, each empty or not
    sterr,     \* the error status returned, "" if none
    \* ---- print_status ----
    pin,       \* the Option<Status> handed to print_status
    pout       \* the arm of the match that printed it

addVars == <<fs, to, files, idx, pc, stack, fcan, hist, err>>

syncVars == <<repo, wt, ignored, index, memIndex, commits, headRef, refs,
              remote, sigOk, push, spc, treeId, parentId, serr, pushes, s0>>

statusVars == <<entries, hasRepo, stpc, confs, ci, walk, found, fi, lines,
                shown, sterr, pin, pout>>

vars == <<addVars, syncVars, statusVars>>

\* ------------------------------------------------------------------ bounds

\* longest batch of input paths
MaxBatch == 2
\* symbolic links followed in one path resolution before ELOOP
MaxSymlinks == 4
\* content versions a file of the repository may have
MaxVersion == 2
\* most commits a repository holds when sync is invoked once more
MaxCommits == 2
\* most entries the vault directory holds
MaxEntries == 2
\* most entries below a configuration's root that a walk yields
MaxWalk == 2

\* ------------------------------------------------------------------- paths

\* A Path/PathBuf: absolute or relative, and its components.
P(a, s) == [abs |-> a, segs |-> s]

NoPath == P(FALSE, <<>>)

\* PathBuf::join: an absolute argument replaces the receiver.
Join(p, q) == IF q.abs THEN q ELSE P(p.abs, p.segs \o q.segs)

\* Path::parent is lexical: the path without its last component.
PathParent(p) == P(p.abs, SubSeq(p.segs, 1, Len(p.segs) - 1))

HasParent(p) == p.segs # <<>>

\* The process's current working directory (physical).
Cwd == <<"h">>

\* ------------------------------------------------------------------- nodes

DirNode == [k |-> "dir", c |-> 0, t |-> NoPath]

FileNode(c) == [k |-> "file", c |-> c, t |-> NoPath]

LinkNode(t) == [k |-> "link", c |-> 0, t |-> t]

PhysParent(q) == IF q = <<>> THEN <<>> ELSE SubSeq(q, 1, Len(q) - 1)

IsPrefix(q, r) == Len(q) <= Len(r) /\ SubSeq(r, 1, Len(q)) = q

\* The kernel's path walk from directory cur. st is "ok" (p is the node),
\* "noent" (only the last component is missing: p is where it would be),
\* "enoent" (an inner component is missing), "enotdir" or "eloop".
RECURSIVE Walk(_, _, _, _, _)
Walk(f, cur, segs, follow, fuel) ==
    IF segs = <<>> THEN [st |-> "ok", p |-> cur]
    ELSE IF cur \notin DOMAIN f THEN [st |-> "enoent", p |-> cur]
    ELSE IF f[cur].k # "dir" THEN [st |-> "enotdir", p |-> cur]
    ELSE LET h == Head(segs)
             t == Tail(segs)
             ch == Append(cur, h)
         IN  IF h = ".." THEN Walk(f, PhysParent(cur), t, follow, fuel)
             ELSE IF ch \notin DOMAIN f
                  THEN [st |-> IF t = <<>> THEN "noent" ELSE "enoent", p |-> ch]
             ELSE IF f[ch].k = "link" /\ (t # <<>> \/ follow)
                  THEN IF fuel = 0 THEN [st |-> "eloop", p |-> ch]
                       ELSE Walk(f, IF f[ch].t.abs THEN <<>> ELSE cur,
                                 f[ch].t.segs \o t, follow, fuel - 1)
             ELSE Walk(f, ch, t, follow, fuel)

Resolve(f, path, follow) ==
    Walk(f, IF path.abs THEN <<>> ELSE Cwd, path.segs, follow, MaxSymlinks)

\* Path::exists and Path::is_dir follow symbolic links; any error is false.
Exists(f, path) == Resolve(f, path, TRUE).st = "ok"

IsDir(f, path) ==
    LET r == Resolve(f, path, TRUE) IN r.st = "ok" /\ f[r.p].k = "dir"

\* (mutant) the path is made absolute without resolving anything
CanonicalizeLexical(f, path) ==
    [ok |-> Resolve(f, path, TRUE).st = "ok",
     path |-> IF path.abs THEN path ELSE P(TRUE, Cwd \o path.segs)]

\* Path::canonicalize: the physical absolute path, all links resolved.
Canonicalize(f, path) ==
    LET r == Resolve(f, path, TRUE)
    IN  [ok |-> r.st = "ok", path |-> P(TRUE, r.p)]

Put(f, q, node) == (q :> node) @@ f

\* mkdir(2): does not follow a final symbolic link.
Mkdir(f, path) ==
    LET r == Resolve(f, path, FALSE)
    IN  CASE r.st = "noent" -> [f |-> Put(f, r.p, DirNode), r |-> "ok"]
          [] r.st = "ok" -> [f |-> f, r |-> "exists"]
          [] r.st = "enoent" -> [f |-> f, r |-> "notfound"]
          [] OTHER -> [f |-> f, r |-> "err"]

\* std::fs::create_dir_all: mkdir; on NotFound create the parent and retry;
\* any other failure is a success when the path is a directory already.
RECURSIVE CreateDirAll(_, _)
CreateDirAll(f, path) ==
    IF ~path.abs /\ path.segs = <<>> THEN [f |-> f, ok |-> TRUE]
    ELSE LET m == Mkdir(f, path)
         IN  IF m.r = "ok" THEN [f |-> m.f, ok |-> TRUE]
             ELSE IF m.r # "notfound" THEN [f |-> f, ok |-> IsDir(f, path)]
             ELSE IF ~HasParent(path) THEN [f |-> f, ok |-> FALSE]
             ELSE LET pr == CreateDirAll(f, PathParent(path))
                      m2 == Mkdir(pr.f, path)
                  IN  IF ~pr.ok THEN pr
                      ELSE IF m2.r = "ok" THEN [f |-> m2.f, ok |-> TRUE]
                      ELSE [f |-> pr.f, ok |-> IsDir(pr.f, path)]

\* Path::read_dir: the names of the entries of the directory.
ReadDir(f, path) ==
    LET r == Resolve(f, path, TRUE)
    IN  IF r.st = "ok" /\ f[r.p].k = "dir"
        THEN [ok |-> TRUE,
              names |-> {q[Len(q)] : q \in {x \in DOMAIN f :
                              Len(x) = Len(r.p) + 1 /\ IsPrefix(r.p, x)}}]
        ELSE [ok |-> FALSE, names |-> {}]

\* std::fs::copy: both paths follow links; the destination is opened with
\* create and truncate before the source is read, so a file copied onto
\* itself ends empty (content 0).
FsCopy(f, src, dst) ==
    LET rs == Resolve(f, src, TRUE)
        rd == Resolve(f, dst, TRUE)
    IN  IF ~(rs.st = "ok" /\ f[rs.p].k = "file") THEN [f |-> f, ok |-> FALSE]
        ELSE IF rd.st = "noent"
             THEN [f |-> Put(f, rd.p, FileNode(f[rs.p].c)), ok |-> TRUE]
        ELSE IF rd.st = "ok" /\ f[rd.p].k = "file"
             THEN [f |-> Put(f, rd.p, FileNode(IF rd.p = rs.p THEN 0 ELSE f[rs.p].c)),
                   ok |-> TRUE]
        ELSE [f |-> f, ok |-> FALSE]

Without(f, gone) == [q \in DOMAIN f \ gone |-> f[q]]

\* std::fs::remove_file: unlink(2), the final link is not followed.
RemoveFile(f, path) ==
    LET r == Resolve(f, path, FALSE)
    IN  IF r.st = "ok" /\ f[r.p].k # "dir" /\ r.p # <<>>
        THEN [f |-> Without(f, {r.p}), ok |-> TRUE]
        ELSE [f |-> f, ok |-> FALSE]

\* std::fs::remove_dir_all: a symbolic link is unlinked, not followed; a
\* directory is removed with everything below it.
RemoveDirAll(f, path) ==
    LET r == Resolve(f, path, FALSE)
    IN  IF r.st # "ok" \/ r.p = <<>> THEN [f |-> f, ok |-> FALSE]
        ELSE IF f[r.p].k = "link" THEN [f |-> Without(f, {r.p}), ok |-> TRUE]
        ELSE IF f[r.p].k = "dir"
             THEN [f |-> Without(f, {q \in DOMAIN f : IsPrefix(r.p, q)}), ok |-> TRUE]
        ELSE [f |-> f, ok |-> FALSE]

\* std::os::unix::fs::symlink(original, link): fails when link exists; the
\* link stores `original` as given, absolute or relative.
Symlink(f, original, link) ==
    LET r == Resolve(f, link, FALSE)
    IN  IF r.st = "noent"
        THEN [f |-> Put(f, r.p, LinkNode(original)), ok |-> TRUE]
        ELSE [f |-> f, ok |-> FALSE]

\* What a path holds, seen through symbolic links: one record per entry
\* below it (rp is the path relative to it).
RECURSIVE Flat(_, _, _, _)
Flat(f, q, rel, fuel) ==
    IF q \notin DOMAIN f THEN {[rp |-> rel, k |-> "none", c |-> 0]}
    ELSE IF f[q].k = "file" THEN {[rp |-> rel, k |-> "file", c |-> f[q].c]}
    ELSE IF f[q].k = "link"
         THEN LET r == Walk(f, PhysParent(q), <<q[Len(q)]>>, TRUE, MaxSymlinks)
              IN  IF r.st = "ok" /\ fuel > 0 THEN Flat(f, r.p, rel, fuel - 1)
                  ELSE {[rp |-> rel, k |-> "none", c |-> 0]}
    ELSE {[rp |-> rel, k |-> "dir", c |-> 0]} \cup
         UNION {Flat(f, x, Append(rel, x[Len(x)]), fuel) :
                    x \in {y \in DOMAIN f : Len(y) = Len(q) + 1 /\ IsPrefix(q, y)}}

\* The tree a path resolves to, or the single record "none".
TreeAt(f, path) ==
    LET r == Resolve(f, path, TRUE)
    IN  IF r.st = "ok" THEN Flat(f, r.p, <<>>, MaxSymlinks)
        ELSE {[rp |-> <<>>, k |-> "none", c |-> 0]}

\* No sync is running: the variables of sync rest at fixed values.
SyncIdle ==
    /\ repo = FALSE
    /\ wt = <<>>
    /\ ignored = {}
    /\ index = <<>>
    /\ memIndex = <<>>
    /\ commits = <<>>
    /\ headRef = <<>>
    /\ refs = <<>>
    /\ remote = <<>>
    /\ sigOk = FALSE
    /\ push = FALSE
    /\ spc = "idle"
    /\ treeId = <<>>
    /\ parentId = 0
    /\ serr = ""
    /\ pushes = 0
    /\ s0 = <<>>

\* No add is running.
AddIdle ==
    /\ fs = <<>>
    /\ to = NoPath
    /\ files = <<>>
    /\ idx = 0
    /\ pc = "idle"
    /\ stack = <<>>
    /\ fcan = NoPath
    /\ hist = <<>>
    /\ err = ""

\* No print_status is running.
PrintIdle ==
    /\ pin = <<>>
    /\ pout = "idle"

\* No status is running.
StatusIdle ==
    /\ entries = <<>>
    /\ hasRepo = FALSE
    /\ stpc = "idle"
    /\ confs = <<>>
    /\ ci = 0
    /\ walk = <<>>
    /\ found = <<>>
    /\ fi = 0
    /\ lines = <<>>
    /\ shown = <<>>
    /\ sterr = ""
    /\ PrintIdle

\* ------------------------------------------------------- add: the inputs

\* The filesystem before the call: the working directory /h holds a file, a
\* directory tree two levels deep, a link to that directory and an empty
\* directory; /v is the vault and /v/c the configuration directory.
InitFs ==
    (<<>> :> DirNode) @@ (<<"h">> :> DirNode) @@ (<<"v">> :> DirNode) @@
    (<<"v", "c">> :> DirNode) @@
    (<<"h", "a">> :> FileNode(1)) @@
    (<<"h", "d">> :> DirNode) @@
    (<<"h", "d", "f">> :> FileNode(2)) @@
    (<<"h", "d", "s">> :> DirNode) @@
    (<<"h", "d", "s", "g">> :> FileNode(3)) @@
    (<<"h", "e">> :> LinkNode(P(FALSE, <<"d">>))) @@
    (<<"h", "sub">> :> DirNode)

\* $VAULT_DIR is used as given (main.rs: only is_dir is checked), so the
\* target directory is absolute (/v/c) or relative to the cwd (../v/c).
Targets == {P(TRUE, <<"v", "c">>), P(FALSE, <<"..", "v", "c">>)}

\* The file arguments a user may give.
Candidates ==
    {P(FALSE, <<"a">>), P(FALSE, <<"d">>), P(FALSE, <<"d", "f">>),
     P(FALSE, <<"d", "s">>), P(FALSE, <<"e">>), P(FALSE, <<"e", "f">>),
     P(FALSE, <<"sub", "..", "a">>), P(FALSE, <<"zz">>), P(TRUE, <<"h", "a">>)}

Batches == UNION {[1..n -> Candidates] : n \in 1..MaxBatch}

\* (mutant) the check for an absolute path is missing
ValidateExistsOnly(f, path) == Exists(f, path)

\* validate_file: the path must exist and must not be absolute.
ValidateFile(f, path) == Exists(f, path) /\ ~path.abs

\* ------------------------------------------------------ add: the machine

Frame(src, dst, at) == [src |-> src, dst |-> dst, at |-> at, todo |-> {}]

Top == stack[Len(stack)]

SetTop(fr) == [stack EXCEPT ![Len(stack)] = fr]

Pop == SubSeq(stack, 1, Len(stack) - 1)

CurFile == files[idx]

Dest == Join(to, CurFile)

\* An error return (`?`): it unwinds move_recursive and move_and_symlink.
Raise(f, e) ==
    /\ fs' = f
    /\ pc' = "err"
    /\ err' = e
    /\ stack' = <<>>
    /\ UNCHANGED <<to, files, idx, fcan, hist>>

\* The loop `for f in files` goes on to the next path or returns Ok(()).
NextPath(h) ==
    /\ hist' = Append(hist, h)
    /\ idx' = idx + 1
    /\ pc' = IF idx + 1 > Len(files) THEN "ok" ELSE "check"
    /\ fcan' = NoPath
    /\ stack' = <<>>
    /\ UNCHANGED <<to, files, err>>

Outcome(out) == [path |-> CurFile, dest |-> Dest, can |-> fcan, out |-> out]

InitAdd ==
    /\ SyncIdle
    /\ StatusIdle
    /\ fs = InitFs
    /\ to \in Targets
    /\ files \in Batches
    /\ idx = 1
    /\ pc = "parse"
    /\ stack = <<>>
    /\ fcan = NoPath
    /\ hist = <<>>
    /\ err = ""

\* clap runs validate_file on every file argument before do_add is called.
ParseArgs ==
    /\ UNCHANGED <<syncVars, statusVars>>
    /\ pc = "parse"
    /\ pc' = IF \A k \in 1..Len(files) : ValidateFile(fs, files[k])
             THEN "check" ELSE "rejected"
    /\ UNCHANGED <<fs, to, files, idx, stack, fcan, hist, err>>

\* (mutant) the existence check is dropped: no path is ever skipped
DestNeverExists == FALSE

\* `if dest.exists() { ...; continue; }`
DestExists == Exists(fs, Dest)

CheckDest ==
    /\ UNCHANGED <<syncVars, statusVars>>
    /\ pc = "check"
    /\ IF DestExists
       THEN /\ NextPath([path |-> CurFile, dest |-> Dest, can |-> NoPath,
                         out |-> "skipped"])
            /\ UNCHANGED fs
       ELSE /\ pc' = "canon"
            /\ UNCHANGED <<fs, to, files, idx, stack, fcan, hist, err>>

\* `f.canonicalize()?`, then the call move_recursive(f, &dest).
CanonicalizeFile ==
    /\ UNCHANGED <<syncVars, statusVars>>
    /\ pc = "canon"
    /\ \E io \in BOOLEAN :
        LET r == Canonicalize(fs, CurFile)
        IN  IF io /\ r.ok
            THEN /\ fcan' = r.path
                 /\ pc' = "move"
                 /\ stack' = <<Frame(CurFile, Dest, "isdir")>>
                 /\ UNCHANGED <<fs, to, files, idx, hist, err>>
            ELSE Raise(fs, "canonicalize")

\* move_recursive: `if src.is_dir()`
MrIsDir ==
    /\ UNCHANGED <<syncVars, statusVars>>
    /\ pc = "move" /\ Top.at = "isdir"
    /\ stack' = SetTop([Top EXCEPT !.at = IF IsDir(fs, Top.src) THEN "mkdir"
                                          ELSE "fparent"])
    /\ UNCHANGED <<fs, to, files, idx, pc, fcan, hist, err>>

\* `fs::create_dir_all(dst)?`
MrCreateDst ==
    /\ UNCHANGED <<syncVars, statusVars>>
    /\ pc = "move" /\ Top.at = "mkdir"
    /\ \E io \in BOOLEAN :
        LET r == CreateDirAll(fs, Top.dst)
        IN  IF io /\ r.ok
            THEN /\ fs' = r.f
                 /\ stack' = SetTop([Top EXCEPT !.at = "readdir"])
                 /\ UNCHANGED <<to, files, idx, pc, fcan, hist, err>>
            ELSE Raise(IF io THEN r.f ELSE fs, "create_dir_all")

\* `src.read_dir()?`
MrReadDir ==
    /\ UNCHANGED <<syncVars, statusVars>>
    /\ pc = "move" /\ Top.at = "readdir"
    /\ \E io \in BOOLEAN :
        LET r == ReadDir(fs, Top.src)
        IN  IF io /\ r.ok
            THEN /\ stack' = SetTop([Top EXCEPT !.at = "loop", !.todo = r.names])
                 /\ UNCHANGED <<fs, to, files, idx, pc, fcan, hist, err>>
            ELSE Raise(fs, "read_dir")

\* One turn of `for entry in ...`: the entry is read (`entry?`), then a
\* directory is moved by the recursive call and anything else is copied.
\* The order of the entries is the filesystem's.
MrEntry ==
    /\ UNCHANGED <<syncVars, statusVars>>
    /\ pc = "move" /\ Top.at = "loop" /\ Top.todo # {}
    /\ \E n \in Top.todo, io \in BOOLEAN :
        LET srcPath == Join(Top.src, P(FALSE, <<n>>))
            dstPath == Join(Top.dst, P(FALSE, <<n>>))
            rest == [Top EXCEPT !.todo = Top.todo \ {n}]
            r == FsCopy(fs, srcPath, dstPath)
        IN  IF ~io THEN Raise(fs, "entry")
            ELSE IF IsDir(fs, srcPath)
                 THEN /\ stack' = Append(SetTop(rest), Frame(srcPath, dstPath, "isdir"))
                      /\ UNCHANGED <<fs, to, files, idx, pc, fcan, hist, err>>
            ELSE IF r.ok
                 THEN /\ fs' = r.f
                      /\ stack' = SetTop(rest)
                      /\ UNCHANGED <<to, files, idx, pc, fcan, hist, err>>
            ELSE Raise(fs, "copy")

\* move_recursive returns Ok(()) to its caller: the enclosing loop, or
\* move_and_symlink, which goes on to create the link.
Return(f) ==
    /\ fs' = f
    /\ stack' = Pop
    /\ pc' = IF Len(stack) = 1 THEN "link" ELSE "move"
    /\ UNCHANGED <<to, files, idx, fcan, hist, err>>

\* `fs::remove_dir_all(src)?` after the last entry.
MrRemoveDir ==
    /\ UNCHANGED <<syncVars, statusVars>>
    /\ pc = "move" /\ Top.at = "loop" /\ Top.todo = {}
    /\ \E io \in BOOLEAN :
        LET r == RemoveDirAll(fs, Top.src)
        IN  IF io /\ r.ok THEN Return(r.f) ELSE Raise(fs, "remove_dir_all")

\* the file branch: `fs::create_dir_all(parent)?`
MrFileParent ==
    /\ UNCHANGED <<syncVars, statusVars>>
    /\ pc = "move" /\ Top.at = "fparent"
    /\ \E io \in BOOLEAN :
        LET r == IF HasParent(Top.dst) THEN CreateDirAll(fs, PathParent(Top.dst))
                 ELSE [f |-> fs, ok |-> TRUE]
        IN  IF io /\ r.ok
            THEN /\ fs' = r.f
                 /\ stack' = SetTop([Top EXCEPT !.at = "fcopy"])
                 /\ UNCHANGED <<to, files, idx, pc, fcan, hist, err>>
            ELSE Raise(IF io THEN r.f ELSE fs, "create_dir_all")

\* `fs::copy(src, dst)?`
MrFileCopy ==
    /\ UNCHANGED <<syncVars, statusVars>>
    /\ pc = "move" /\ Top.at = "fcopy"
    /\ \E io \in BOOLEAN :
        LET r == FsCopy(fs, Top.src, Top.dst)
        IN  IF io /\ r.ok
            THEN /\ fs' = r.f
                 /\ stack' = SetTop([Top EXCEPT !.at = "fremove"])
                 /\ UNCHANGED <<to, files, idx, pc, fcan, hist, err>>
            ELSE Raise(fs, "copy")

\* `fs::remove_file(src)?`
MrFileRemove ==
    /\ UNCHANGED <<syncVars, statusVars>>
    /\ pc = "move" /\ Top.at = "fremove"
    /\ \E io \in BOOLEAN :
        LET r == RemoveFile(fs, Top.src)
        IN  IF io /\ r.ok THEN Return(r.f) ELSE Raise(fs, "remove_file")

\* (mutant) a failure of symlink is not returned: the loop goes on
MakeLinkHidesFailure ==
    /\ UNCHANGED <<syncVars, statusVars>>
    /\ pc = "link"
    /\ \E io \in BOOLEAN :
        LET r == Symlink(fs, Dest, fcan)
        IN  /\ fs' = IF io /\ r.ok THEN r.f ELSE fs
            /\ NextPath(Outcome("relocated"))

\* `unix::fs::symlink(&dest, &f_can_file)?`
MakeLink ==
    /\ UNCHANGED <<syncVars, statusVars>>
    /\ pc = "link"
    /\ \E io \in BOOLEAN :
        LET r == Symlink(fs, Dest, fcan)
        IN  IF io /\ r.ok
            THEN /\ fs' = r.f
                 /\ NextPath(Outcome("relocated"))
            ELSE Raise(fs, "symlink")

NextAdd ==
    \/ ParseArgs
    \/ CheckDest
    \/ CanonicalizeFile
    \/ MrIsDir
    \/ MrCreateDst
    \/ MrReadDir
    \/ MrEntry
    \/ MrRemoveDir
    \/ MrFileParent
    \/ MrFileCopy
    \/ MrFileRemove
    \/ MakeLink

SpecAdd == InitAdd /\ [][NextAdd]_vars

\* ------------------------------------------------------ add: the claims

Relocated == {k \in 1..Len(hist) : hist[k].out = "relocated"}

\* The original location of a relocated path is a symbolic link.
IsLinked(f, h) == h.can.segs \in DOMAIN f /\ f[h.can.segs].k = "link"

\* The link resolves to a tree equal, in structure and file contents, to
\* what the path held before the call.
SameTree(f, h) == TreeAt(f, h.can) = TreeAt(InitFs, h.path)

\* C1: whenever move_and_symlink returns success, the original location of
\* every path it relocated is a symlink, and the tree that symlink resolves
\* to has the directory structure and file contents the path had before
\* the call.
C1_RelocatedTreePreserved ==
    pc = "ok" => \A k \in Relocated : IsLinked(fs, hist[k]) /\ SameTree(fs, hist[k])

\* The content of a relocated path is in the vault, at its destination.
InVault(f, h) == TreeAt(f, h.dest) = TreeAt(InitFs, h.path)

\* C3: when move_and_symlink returns an error at the i-th path, every path
\* before i that was relocated is still relocated (its content in the vault,
\* a symlink at its original location), and no path after i was processed.
C3_ErrorKeepsEarlierPaths ==
    pc = "err" =>
        /\ Len(hist) = idx - 1
        /\ \A k \in Relocated : IsLinked(fs, hist[k]) /\ InVault(fs, hist[k])

\* C2: a path whose destination already exists is skipped: the filesystem
\* (vault and original location) is unchanged, no error is raised, and the
\* loop goes on with the next path (or returns Ok after the last one); and
\* a path relocated earlier in the batch finds its destination existing,
\* so relocating it a second time is such a skip.
C2_ExistingDestSkipped ==
    /\ [][(pc = "check" /\ Exists(fs, Dest)) =>
            /\ fs' = fs
            /\ err' = ""
            /\ idx' = idx + 1
            /\ hist' = Append(hist, [path |-> CurFile, dest |-> Dest,
                                     can |-> NoPath, out |-> "skipped"])
            /\ pc' = IF idx = Len(files) THEN "ok" ELSE "check"]_vars
    /\ [](pc = "check" =>
            \A k \in Relocated : hist[k].path = CurFile => Exists(fs, Dest))

\* A batch that names the same path twice has returned Ok: the path was
\* relocated the first time and skipped the second time.
C2_Witness ==
    /\ pc = "ok"
    /\ Len(hist) = 2
    /\ hist[1].out = "relocated"
    /\ hist[2].out = "skipped"
    /\ hist[1].path = hist[2].path

\* A batch has stopped with an error at its second path after relocating
\* the first.
C3_Witness ==
    pc = "err" /\ idx = 2 /\ hist[1].out = "relocated"

\* move_and_symlink has returned Ok after relocating a directory tree.
C1_Witness ==
    pc = "ok" /\ \E k \in Relocated : hist[k].path = P(FALSE, <<"d">>)

\* The batch names a path that is absolute or did not exist at the call.
HasInvalidPath ==
    \E k \in DOMAIN files :
        files[k].abs \/ Resolve(InitFs, files[k], TRUE).st # "ok"

\* C14: an add whose file list holds a path that is absolute or does not
\* exist is rejected while the arguments are parsed: relocation never
\* begins for any path of the list, and the whole filesystem, the vault
\* included, stays as it was.
C14_InvalidListRejected ==
    HasInvalidPath =>
        /\ pc \in {"parse", "rejected"}
        /\ fs = InitFs
        /\ hist = <<>>
        /\ stack = <<>>
        /\ idx = 1

\* a list whose first path is valid and whose second path is absolute was
\* rejected.
C14_Witness ==
    /\ pc = "rejected"
    /\ Len(files) = 2
    /\ files[1] = P(FALSE, <<"d">>)
    /\ files[2].abs

\* The first path of the batch is a real directory (no link on the way),
\* and its relocation has begun.
MovingFirstDir ==
    /\ idx = 1
    /\ pc \in {"move", "link", "err"}
    /\ LET r == Resolve(InitFs, files[1], FALSE)
       IN  r.st = "ok" /\ InitFs[r.p].k = "dir" /\ r.p = Cwd \o files[1].segs

\* C15: while a directory tree is relocated, and when the relocation has
\* failed, the original tree is as it was before the call unless the whole
\* of it is in dest already: nothing of it is removed before its last
\* entry, nested ones included, was copied.
C15_NothingRemovedBeforeLastCopy ==
    MovingFirstDir =>
        \/ TreeAt(fs, files[1]) = TreeAt(InitFs, files[1])
        \/ TreeAt(fs, Dest) = TreeAt(InitFs, files[1])

ResolvedBeforeMove ==
    pc = "canon" =>
        /\ fs' = fs
        /\ pc' \in {"move", "err"}
        /\ pc' = "err" => err' = "canonicalize"
        /\ pc' = "move" =>
             /\ fcan'.abs
             /\ Resolve(fs, fcan', FALSE) = [st |-> "ok", p |-> fcan'.segs]
             /\ Resolve(fs, CurFile, TRUE) = [st |-> "ok", p |-> fcan'.segs]

\* Nothing is copied or removed for a path before its location is resolved,
\* and the resolved location does not change while the path is moved.
MovedAfterResolved ==
    /\ fs' # fs => (pc \in {"move", "link"} /\ fcan # NoPath)
    /\ (pc \in {"move", "link"} /\ pc' \in {"move", "link"}) => fcan' = fcan

\* The link is created at the resolved location, pointing at dest.
LinkedAtResolved ==
    (pc = "link" /\ pc' # "err") =>
        /\ fcan.segs \notin DOMAIN fs
        /\ fs' = Put(fs, fcan.segs, LinkNode(Dest))
        /\ hist' = Append(hist, [path |-> CurFile, dest |-> Dest, can |-> fcan,
                                 out |-> "relocated"])

\* C17: for each relocated path the canonical absolute location of the
\* future link is resolved before anything of the path is copied or
\* removed, the link is created at exactly that location, and a failed
\* resolution leaves the path unmoved.
C17_ResolvedBeforeMoveLinkedThere ==
    /\ [][ResolvedBeforeMove]_vars
    /\ [][MovedAfterResolved]_vars
    /\ [][LinkedAtResolved]_vars

\* a path given through a link to its directory (e/f) was relocated: its
\* link stands at the physical location of the file.
C17_Witness ==
    /\ pc = "ok"
    /\ Len(hist) = 1
    /\ hist[1].out = "relocated"
    /\ hist[1].path = P(FALSE, <<"e", "f">>)
    /\ hist[1].can = P(TRUE, <<"h", "d", "f">>)
    /\ fs[<<"h", "d", "f">>].k = "link"

\* The vault and the target configuration directory, as physical paths.
VaultRoot == <<"v">>

ConfDir == <<"v", "c">>

\* The symbolic links that were not there before the call.
NewLinks ==
    {q \in DOMAIN fs : fs[q].k = "link" /\ (q \notin DOMAIN InitFs \/ InitFs[q] # fs[q])}

\* Where a link leads, all links followed.
LinkEnd(f, q) == Walk(f, PhysParent(q), <<q[Len(q)]>>, TRUE, MaxSymlinks)

\* C20: after every add of a sequence, each symlink the relocations made
\* lies outside the vault and resolves to a path inside the target
\* configuration directory, and nothing inside the vault is a symlink; for
\* every validated relative path, with or without ".." segments, itself a
\* symlink or not.
C20_LinksOutsideVaultIntoConf ==
    pc \in {"check", "ok"} =>
        /\ \A q \in NewLinks :
             /\ ~IsPrefix(VaultRoot, q)
             /\ LinkEnd(fs, q).st = "ok"
             /\ IsPrefix(ConfDir, LinkEnd(fs, q).p)
        /\ \A q \in DOMAIN fs : IsPrefix(VaultRoot, q) => fs[q].k # "link"

\* The path holds a regular file with content c (links followed).
HoldsFile(f, path, c) ==
    LET r == Resolve(f, path, TRUE)
    IN  r.st = "ok" /\ f[r.p].k = "file" /\ f[r.p].c = c

\* The files of the original trees of the input paths: the input, the path
\* of the file below it, the physical file it named before the call and
\* its content.
OriginalFiles ==
    UNION {{[k |-> k, rp |-> r.rp, c |-> r.c,
             phys |-> Resolve(InitFs, Join(files[k], P(FALSE, r.rp)), TRUE).p] :
                r \in {x \in TreeAt(InitFs, files[k]) : x.k = "file"}} :
           k \in DOMAIN files}

\* The content of an original file is at its original location or at its
\* mirrored location under dest.
Kept(o) ==
    \/ HoldsFile(fs, Join(files[o.k], P(FALSE, o.rp)), o.c)
    \/ HoldsFile(fs, Join(Join(to, files[o.k]), P(FALSE, o.rp)), o.c)

\* C21: in every state of move_and_symlink, the states left by a failure
\* included, each file of the original tree of each input path has its full
\* content at its original location or at its mirrored location under dest
\* (for a file that several input paths name, under one of these names).
C21_NoDataLoss ==
    \A o \in OriginalFiles :
        \E o2 \in OriginalFiles : o2.phys = o.phys /\ Kept(o2)

\* ------------------------------------------------------ sync: the inputs

RepoPaths == {"x", "y"}

Versions == 0..MaxVersion

NoTree == [p \in RepoPaths |-> 0]

\* The remote repository's commit when its history is not the local one.
Foreign == -1

Commit(tree, parent, msg) == [tree |-> tree, parent |-> parent, msg |-> msg]

\* The tree of a commit (the empty tree when there is none).
TreeOf(cs, id) == IF id \in 1..Len(cs) THEN cs[id].tree ELSE NoTree

\* repo.head(): HEAD resolved to a commit id; 0 on an unborn branch.
HeadTarget(h, r) == IF h.sym THEN r[h.branch] ELSE h.oid

HeadTree == TreeOf(commits, HeadTarget(headRef, refs))

\* A path is tracked when the index has an entry for it.
Tracked(ix, p) == ix[p] # 0

\* git_status: the flags of one path, from HEAD's tree, the index and the
\* working tree.
StatusFlags(ht, ix, w, ign, p) ==
    (IF ht[p] = 0 /\ ix[p] # 0 THEN {"INDEX_NEW"} ELSE {}) \cup
    (IF ht[p] # 0 /\ ix[p] # 0 /\ ht[p] # ix[p] THEN {"INDEX_MODIFIED"} ELSE {}) \cup
    (IF ht[p] # 0 /\ ix[p] = 0 THEN {"INDEX_DELETED"} ELSE {}) \cup
    (IF ix[p] = 0 /\ w[p] # 0 /\ p \notin ign THEN {"WT_NEW"} ELSE {}) \cup
    (IF ix[p] # 0 /\ w[p] # 0 /\ ix[p] # w[p] THEN {"WT_MODIFIED"} ELSE {}) \cup
    (IF ix[p] # 0 /\ w[p] = 0 THEN {"WT_DELETED"} ELSE {}) \cup
    (IF ix[p] = 0 /\ w[p] # 0 /\ p \in ign THEN {"IGNORED"} ELSE {})

\* repo.statuses(None): with no options libgit2 applies its defaults, which
\* include untracked and ignored files; an entry is a path with a flag set.
Statuses(ht, ix, w, ign) ==
    {p \in RepoPaths : StatusFlags(ht, ix, w, ign, p) # {}}

\* (mutant) the entries of files gone from the working tree are kept
AddAllKeepsDeleted(ix, w, ign) ==
    [p \in RepoPaths |->
        IF w[p] # 0 THEN (IF p \in ign /\ ~Tracked(ix, p) THEN 0 ELSE w[p])
        ELSE ix[p]]

\* index.add_all(["*"], DEFAULT): every working-tree file is added or
\* updated, except an ignored file that is not tracked; an entry whose file
\* is gone from the working tree is removed.
AddAll(ix, w, ign) ==
    [p \in RepoPaths |->
        IF w[p] # 0 THEN (IF p \in ign /\ ~Tracked(ix, p) THEN 0 ELSE w[p])
        ELSE 0]

\* a is b or an ancestor of b.
RECURSIVE IsAncestor(_, _, _)
IsAncestor(cs, a, b) ==
    IF a = b THEN TRUE
    ELSE IF b \notin 1..Len(cs) THEN FALSE
    ELSE IsAncestor(cs, a, cs[b].parent)

Snapshot == [index |-> index, refs |-> refs, headRef |-> headRef,
             commits |-> commits, n |-> Len(commits), remote |-> remote,
             statuses |-> Statuses(HeadTree, index, wt, ignored),
             head |-> HeadTarget(headRef, refs)]

\* The repository when sync is called: a branch "main" with one commit, an
\* unborn branch, or a detached HEAD; any index and working tree.
InitSync ==
    /\ AddIdle
    /\ StatusIdle
    /\ repo \in BOOLEAN
    /\ push \in BOOLEAN
    /\ sigOk \in BOOLEAN
    /\ \E born \in BOOLEAN, ht \in [RepoPaths -> 0..1] :
        /\ commits = IF born THEN <<Commit(ht, 0, "init")>> ELSE <<>>
        /\ refs = [b \in {"main"} |-> IF born THEN 1 ELSE 0]
        /\ headRef \in IF born
                       THEN {[sym |-> TRUE, branch |-> "main", oid |-> 0],
                             [sym |-> FALSE, branch |-> "", oid |-> 1]}
                       ELSE {[sym |-> TRUE, branch |-> "main", oid |-> 0]}
        /\ remote \in {[present |-> FALSE, heads |-> [b \in {"main"} |-> 0]]} \cup
                      {[present |-> TRUE, heads |-> [b \in {"main"} |-> c]] :
                            c \in IF born THEN {0, 1, Foreign} ELSE {0, Foreign}}
        /\ born \/ ht = NoTree
    /\ wt \in [RepoPaths -> Versions]
    /\ index \in [RepoPaths -> Versions]
    /\ ignored \in {{}, {"y"}}
    /\ memIndex = NoTree
    /\ spc = "start"
    /\ treeId = NoTree
    /\ parentId = 0
    /\ serr = ""
    /\ pushes = 0
    /\ s0 = Snapshot

\* ----------------------------------------------------- sync: the machine

SyncFail(e) ==
    /\ spc' = "err"
    /\ serr' = e
    /\ UNCHANGED <<repo, wt, ignored, index, memIndex, commits, headRef, refs,
                   remote, sigOk, push, treeId, parentId, pushes, s0>>

SyncGoto(l) ==
    /\ spc' = l
    /\ UNCHANGED <<repo, wt, ignored, index, memIndex, commits, headRef, refs,
                   remote, sigOk, push, treeId, parentId, serr, pushes, s0>>

\* (mutant) the bail on a missing repository is gone
SyncOpenNoBail ==
    /\ UNCHANGED <<addVars, statusVars>>
    /\ spc = "start"
    /\ memIndex' = index
    /\ spc' = "status"
    /\ UNCHANGED <<repo, wt, ignored, index, commits, headRef, refs, remote,
                   sigOk, push, treeId, parentId, serr, pushes, s0>>

\* `let Some(repo) = repo else { bail!(..) }`, then `repo.index()?`
SyncOpen ==
    /\ UNCHANGED <<addVars, statusVars>>
    /\ spc = "start"
    /\ \E io \in BOOLEAN :
        IF ~repo THEN SyncFail("GIT repo not found")
        ELSE IF ~io THEN SyncFail("cannot get the index file")
        ELSE /\ memIndex' = index
             /\ spc' = "status"
             /\ UNCHANGED <<repo, wt, ignored, index, commits, headRef, refs,
                            remote, sigOk, push, treeId, parentId, serr,
                            pushes, s0>>

\* (mutant) the early return on an empty status set is missing
SyncStatusUnchecked ==
    /\ UNCHANGED <<addVars, statusVars>>
    /\ spc = "status"
    /\ \E io \in BOOLEAN :
        IF ~io THEN SyncFail("Failed to get repository status")
        ELSE SyncGoto("add")

\* `repo.statuses(None)?` and `if statuses.is_empty() { return Ok(()) }`
SyncStatus ==
    /\ UNCHANGED <<addVars, statusVars>>
    /\ spc = "status"
    /\ \E io \in BOOLEAN :
        IF ~io THEN SyncFail("Failed to get repository status")
        ELSE IF Statuses(HeadTree, memIndex, wt, ignored) = {}
             THEN SyncGoto("nochanges")
        ELSE SyncGoto("add")

\* `index.add_all(["*"].iter(), IndexAddOption::DEFAULT, None)?`
SyncAddAll ==
    /\ UNCHANGED <<addVars, statusVars>>
    /\ spc = "add"
    /\ \E io \in BOOLEAN :
        IF ~io THEN SyncFail("Failed to add files to git index")
        ELSE /\ memIndex' = AddAll(memIndex, wt, ignored)
             /\ spc' = "write"
             /\ UNCHANGED <<repo, wt, ignored, index, commits, headRef, refs,
                            remote, sigOk, push, treeId, parentId, serr,
                            pushes, s0>>

\* `index.write()?`
SyncWriteIndex ==
    /\ UNCHANGED <<addVars, statusVars>>
    /\ spc = "write"
    /\ \E io \in BOOLEAN :
        IF ~io THEN SyncFail("Failed to write git index")
        ELSE /\ index' = memIndex
             /\ spc' = "tree"
             /\ UNCHANGED <<repo, wt, ignored, memIndex, commits, headRef,
                            refs, remote, sigOk, push, treeId, parentId, serr,
                            pushes, s0>>

\* `index.write_tree()?` and `repo.find_tree(tree_id)?`
SyncWriteTree ==
    /\ UNCHANGED <<addVars, statusVars>>
    /\ spc = "tree"
    /\ \E io \in BOOLEAN :
        IF ~io THEN SyncFail("Failed to write git tree")
        ELSE /\ treeId' = memIndex
             /\ spc' = "signature"
             /\ UNCHANGED <<repo, wt, ignored, index, memIndex, commits,
                            headRef, refs, remote, sigOk, push, parentId, serr,
                            pushes, s0>>

\* `repo.signature()?`
SyncSignature ==
    /\ UNCHANGED <<addVars, statusVars>>
    /\ spc = "signature"
    /\ IF sigOk THEN SyncGoto("head") ELSE SyncFail("Failed to get git signature")

\* (mutant) an unborn branch is taken as a history to start: no parent
SyncHeadAllowsUnborn ==
    /\ UNCHANGED <<addVars, statusVars>>
    /\ spc = "head"
    /\ parentId' = HeadTarget(headRef, refs)
    /\ spc' = "commit"
    /\ UNCHANGED <<repo, wt, ignored, index, memIndex, commits, headRef, refs,
                   remote, sigOk, push, treeId, serr, pushes, s0>>

\* `repo.head()?.target().context(..)?` and `repo.find_commit(head)?`
SyncHead ==
    /\ UNCHANGED <<addVars, statusVars>>
    /\ spc = "head"
    /\ \E io \in BOOLEAN :
        IF HeadTarget(headRef, refs) = 0 THEN SyncFail("Failed to get HEAD reference")
        ELSE IF ~io THEN SyncFail("Failed to find parent commit")
        ELSE /\ parentId' = HeadTarget(headRef, refs)
             /\ spc' = "commit"
             /\ UNCHANGED <<repo, wt, ignored, index, memIndex, commits,
                            headRef, refs, remote, sigOk, push, treeId, serr,
                            pushes, s0>>

\* The message of every commit sync creates.
SyncMessage == "Sync dotfiles"

\* repo.commit(Some("HEAD"), ..): the commit object.
NewCommit == Commit(treeId, parentId, SyncMessage)

\* repo.commit(Some("HEAD"), ..): the reference HEAD names is moved to the
\* new commit: the branch of a symbolic HEAD, HEAD itself when detached.
SyncCommit ==
    /\ UNCHANGED <<addVars, statusVars>>
    /\ spc = "commit"
    /\ \E io \in BOOLEAN :
        IF ~io THEN SyncFail("Failed to create commit")
        ELSE /\ commits' = Append(commits, NewCommit)
             /\ IF headRef.sym
                THEN /\ refs' = [refs EXCEPT ![headRef.branch] = Len(commits) + 1]
                     /\ UNCHANGED headRef
                ELSE /\ headRef' = [headRef EXCEPT !.oid = Len(commits) + 1]
                     /\ UNCHANGED refs
             /\ spc' = IF push THEN "remote" ELSE "done"
             /\ UNCHANGED <<repo, wt, ignored, index, memIndex, remote, sigOk,
                            push, treeId, parentId, serr, pushes, s0>>

\* (mutant) a missing remote is not an error at this step
SyncFindRemoteLax ==
    /\ UNCHANGED <<addVars, statusVars>>
    /\ spc = "remote"
    /\ SyncGoto("branch")

\* `repo.find_remote("origin")?`
SyncFindRemote ==
    /\ UNCHANGED <<addVars, statusVars>>
    /\ spc = "remote"
    /\ IF remote.present THEN SyncGoto("branch")
       ELSE SyncFail("Remote 'origin' not found")

\* `repo.head()?` and `head.shorthand().ok_or_else(..)?`: the shorthand of a
\* detached HEAD is the name "HEAD".
SyncBranch ==
    /\ UNCHANGED <<addVars, statusVars>>
    /\ spc = "branch"
    /\ \E io \in BOOLEAN :
        IF ~io THEN SyncFail("Failed to get HEAD reference for push")
        ELSE SyncGoto("push")

BranchName == IF headRef.sym THEN headRef.branch ELSE "HEAD"

\* `remote.push(&["refs/heads/<branch>"], None)?`: the local ref must exist,
\* and the remote takes a fast-forward only.
SyncPush ==
    /\ UNCHANGED <<addVars, statusVars>>
    /\ spc = "push"
    /\ pushes' = pushes + 1
    /\ \E io \in BOOLEAN :
        IF io /\ BranchName \in DOMAIN refs /\ refs[BranchName] # 0
              /\ (remote.heads[BranchName] = 0
                  \/ IsAncestor(commits, remote.heads[BranchName], refs[BranchName]))
        THEN /\ remote' = [remote EXCEPT !.heads[BranchName] = refs[BranchName]]
             /\ spc' = "pushed"
             /\ UNCHANGED <<repo, wt, ignored, index, memIndex, commits,
                            headRef, refs, sigOk, push, treeId, parentId, serr,
                            s0>>
        ELSE /\ spc' = "err"
             /\ serr' = "Failed to push to remote"
             /\ UNCHANGED <<repo, wt, ignored, index, memIndex, commits,
                            headRef, refs, remote, sigOk, push, treeId,
                            parentId, s0>>

NextSync ==
    \/ SyncOpen
    \/ SyncStatus
    \/ SyncAddAll
    \/ SyncWriteIndex
    \/ SyncWriteTree
    \/ SyncSignature
    \/ SyncHead
    \/ SyncCommit
    \/ SyncFindRemote
    \/ SyncBranch
    \/ SyncPush

SpecSync == InitSync /\ [][NextSync]_vars

\* sync is invoked again on the repository a sync that committed has left,
\* with nothing changed in between: only what the repository persists
\* (index, refs, objects) and the working tree carry over.
SyncAgain ==
    /\ UNCHANGED <<addVars, statusVars>>
    /\ spc \in {"done", "pushed"}
    /\ Len(commits) <= MaxCommits
    /\ spc' = "start"
    /\ push' \in BOOLEAN
    /\ memIndex' = NoTree
    /\ treeId' = NoTree
    /\ parentId' = 0
    /\ serr' = ""
    /\ pushes' = 0
    /\ s0' = Snapshot
    /\ UNCHANGED <<repo, wt, ignored, index, commits, headRef, refs, remote,
                   sigOk>>

NextSyncTwice ==
    \/ NextSync
    \/ SyncAgain

SpecSyncTwice == InitSync /\ [][NextSyncTwice]_vars

\* ------------------------------------------------------ sync: the claims

Last == commits[Len(commits)]

Committed == Len(commits) > s0.n

\* The paths in which two trees differ.
TreeDiff(t1, t2) == {p \in RepoPaths : t1[p] # t2[p]}

WorkTreeChanges(t) ==
    {p \in RepoPaths :
        \/ t[p] = 0 /\ wt[p] # 0 /\ ~(p \in ignored /\ s0.index[p] = 0)
        \/ t[p] # 0 /\ wt[p] # 0 /\ wt[p] # t[p]
        \/ t[p] # 0 /\ wt[p] = 0}

\* What sync creates when it commits: one commit, whose parent is the HEAD
\* commit of before the call, with the fixed message, and HEAD points to it.
OneSyncCommit ==
    /\ Len(commits) = s0.n + 1
    /\ SubSeq(commits, 1, s0.n) = s0.commits
    /\ s0.head # 0
    /\ Last.parent = s0.head
    /\ Last.msg = "Sync dotfiles"
    /\ HeadTarget(headRef, refs) = Len(commits)
    /\ s0.statuses # {}

Stageable(p) ==
    IF wt[p] # 0 /\ ~(p \in ignored /\ s0.index[p] = 0) THEN wt[p] ELSE 0

C6_NoOriginFailsAfterCommit ==
    (repo /\ push /\ ~s0.remote.present /\ s0.statuses # {}) =>
        /\ spc \notin {"nochanges", "done", "branch", "push", "pushed"}
        /\ pushes = 0
        /\ remote = s0.remote
        /\ (spc = "err" /\ Committed) => serr = "Remote 'origin' not found"
        /\ serr = "Remote 'origin' not found" =>
             /\ Len(commits) = s0.n + 1
             /\ Last.parent = s0.head
             /\ HeadTarget(headRef, refs) = Len(commits)
             /\ IF s0.headRef.sym
                THEN headRef = s0.headRef
                     /\ refs = [s0.refs EXCEPT ![s0.headRef.branch] = Len(commits)]
                ELSE refs = s0.refs

\* sync --push has failed for want of the remote, after committing.
C6_Witness ==
    spc = "err" /\ serr = "Remote 'origin' not found" /\ Committed /\ s0.headRef.sym

\* The steps of one sync, in the order the state machine allows them.
SyncSteps ==
    {<<"start", "status">>, <<"status", "nochanges">>, <<"status", "add">>,
     <<"add", "write">>, <<"write", "tree">>, <<"tree", "signature">>,
     <<"signature", "head">>, <<"head", "commit">>, <<"commit", "done">>,
     <<"commit", "remote">>, <<"remote", "branch">>, <<"branch", "push">>,
     <<"push", "pushed">>}

\* One sync may go from step a to step b.
IsSyncStep(a, b) == <<a, b>> \in SyncSteps

\* Every step of a sync ends in the next step of the state machine or in
\* the error return, and nothing follows a return.
SyncStepsInOrder ==
    /\ spc' # spc => (spc' = "err" \/ IsSyncStep(spc, spc'))
    /\ spc \in {"err", "nochanges", "done", "pushed"} => vars' = vars

\* A commit is created only at the commit step, from the index already
\* written to disk, with the HEAD commit of before the call as its parent.
CommitAfterIndexWrite ==
    commits' # commits =>
        /\ spc = "commit"
        /\ index = memIndex
        /\ index = AddAll(s0.index, wt, ignored)
        /\ commits' = Append(commits, Commit(index, s0.head, "Sync dotfiles"))

\* A push is attempted only when it was requested, after the commit.
PushAfterCommit ==
    pushes' # pushes => push /\ Committed /\ spc = "push"

\* C11: a sync moves only along NoRepo -> bail | NoChanges -> no-op |
\* Changes -> Staged -> Committed -> (optionally) Pushed, every step ending
\* in the next one or in the error return, after which nothing happens;
\* without a repository it fails with nothing changed; a commit is created
\* only from the index already written to disk; a push is attempted only
\* when it was requested and after the commit was created.
C11_SyncStateMachine ==
    /\ [][SyncStepsInOrder]_vars
    /\ [][CommitAfterIndexWrite]_vars
    /\ [][PushAfterCommit]_vars
    /\ [](~repo =>
            /\ spc \in {"start", "err"}
            /\ spc = "err" => serr = "GIT repo not found"
            /\ <<index, commits, headRef, refs, remote>>
                 = <<s0.index, s0.commits, s0.headRef, s0.refs, s0.remote>>
            /\ pushes = 0)
    /\ [](spc \in {"remote", "branch", "push", "pushed"} => (push /\ Committed))
    /\ [](spc = "done" => (~push /\ Committed))
    /\ [](spc = "err" <=> serr # "")

\* a sync has gone all the way: staged, committed and pushed.
C11_Witness ==
    spc = "pushed" /\ Committed /\ remote.heads["main"] = Len(commits)

\* C12: a sync on a repository with pending changes whose HEAD has no commit
\* (unborn branch) never succeeds: it creates no commit, creates or moves
\* no ref, attempts no push, and when it gets as far as reading HEAD it
\* fails there.
C12_UnbornHeadFails ==
    (repo /\ s0.head = 0 /\ s0.statuses # {}) =>
        /\ spc \in {"start", "status", "add", "write", "tree", "signature",
                    "head", "err"}
        /\ commits = s0.commits
        /\ refs = s0.refs
        /\ headRef = s0.headRef
        /\ remote = s0.remote
        /\ pushes = 0
        /\ spc = "err" =>
             serr \in {"cannot get the index file", "Failed to get repository status",
                       "Failed to add files to git index", "Failed to write git index",
                       "Failed to write git tree", "Failed to get git signature",
                       "Failed to get HEAD reference"}

\* a sync with a push requested has failed reading the HEAD of an unborn
\* branch, after staging the changes.
C12_Witness ==
    /\ spc = "err"
    /\ serr = "Failed to get HEAD reference"
    /\ s0.head = 0
    /\ push
    /\ index # s0.index

\* C13: a sync with a push requested on a detached HEAD fails when it
\* resolves the branch name: it never gets to the push step, attempts no
\* push, leaves the remote as it was, and the error it returns after the
\* commit, with the remote found and HEAD read, is that of the resolution.
C13_DetachedHeadFailsAtBranchName ==
    (repo /\ push /\ ~s0.headRef.sym /\ s0.statuses # {}) =>
        /\ spc \notin {"push", "pushed", "done", "nochanges"}
        /\ pushes = 0
        /\ remote = s0.remote
        /\ (spc = "err" /\ Committed /\ remote.present) =>
             serr \in {"Failed to get HEAD reference for push",
                       "Cannot determine current branch"}

\* ---------------------------------------------------- status: the inputs

\* The byte '.' of `file_name.starts_with('.')`.
Dot == 46

\* File names are byte strings (OsStr). The names an entry of the vault may
\* have: "B", "a", "ab", ".a" and the single byte 0xFF.
Names == {<<66>>, <<97>>, <<97, 98>>, <<Dot, 97>>, <<255>>}

\* OsStr::to_str succeeds when the bytes are UTF-8: one byte below 0x80, or
\* a lead byte followed by its continuation bytes.
RECURSIVE Utf8Valid(_)
Utf8Valid(s) ==
    LET Cont(k) == \A i \in 2..k : s[i] \in 128..191
    IN  IF s = <<>> THEN TRUE
        ELSE IF s[1] < 128 THEN Utf8Valid(Tail(s))
        ELSE IF s[1] \in 194..223 /\ Len(s) >= 2 /\ Cont(2)
             THEN Utf8Valid(SubSeq(s, 3, Len(s)))
        ELSE IF s[1] \in 224..239 /\ Len(s) >= 3 /\ Cont(3)
             THEN Utf8Valid(SubSeq(s, 4, Len(s)))
        ELSE IF s[1] \in 240..244 /\ Len(s) >= 4 /\ Cont(4)
             THEN Utf8Valid(SubSeq(s, 5, Len(s)))
        ELSE FALSE

\* str::starts_with(char), on the bytes of the string.
StartsWith(s, b) == s # <<>> /\ s[1] = b

\* Ord for String, `a.0.cmp(&b.0)`: the bytes are compared over the common
\* length, then the lengths.
RECURSIVE StrCmp(_, _)
StrCmp(a, b) ==
    IF a = <<>> /\ b = <<>> THEN "Equal"
    ELSE IF a = <<>> THEN "Less"
    ELSE IF b = <<>> THEN "Greater"
    ELSE IF a[1] < b[1] THEN "Less"
    ELSE IF a[1] > b[1] THEN "Greater"
    ELSE StrCmp(Tail(a), Tail(b))

\* One item of the iterator fs::read_dir(vault) returns: an error, or an
\* entry with its name and what its path is (a directory, a regular file,
\* or a symbolic link to a directory).
ErrItem == [ok |-> FALSE, name |-> <<>>, kind |-> "none"]

Items == {ErrItem} \cup
         {[ok |-> TRUE, name |-> n, kind |-> k] :
                n \in Names, k \in {"dir", "file", "linkdir"}}

\* The listings of a vault: the names of a directory's entries are distinct.
Listings ==
    {s \in UNION {[1..n -> Items] : n \in 0..MaxEntries} :
        \A i, j \in DOMAIN s :
            (i < j /\ s[i].ok /\ s[j].ok) => s[i].name # s[j].name}

\* Option<Status>: None, or Some of a set of flags.
None == [some |-> FALSE, bits |-> {}]

Some(bits) == [some |-> TRUE, bits |-> bits]

\* What repo.status_file answers for a regular file: an error, or the flags
\* (none set: Status::CURRENT).
FileQueries == {[ok |-> FALSE, bits |-> {}], [ok |-> TRUE, bits |-> {}],
                [ok |-> TRUE, bits |-> {"WT_NEW"}]}

\* What repo.status_file answers for a directory: always an error (the path
\* is ambiguous, or matches no file when the directory is empty).
DirQuery == [ok |-> FALSE, bits |-> {}]

\* One item the walk yields below the root: an error, a directory, or a
\* file, whose name may fail to_str. Without a repository nothing is queried.
Kids(r) ==
    {[k |-> "err", utf8 |-> TRUE, q |-> DirQuery],
     [k |-> "dir", utf8 |-> TRUE, q |-> DirQuery],
     [k |-> "file", utf8 |-> FALSE, q |-> DirQuery]} \cup
    {[k |-> "file", utf8 |-> TRUE, q |-> q] :
        q \in IF r THEN FileQueries ELSE {DirQuery}}

\* What WalkDir::new(conf_path) yields: the root entry first (when it is an
\* error nothing follows), then the entries below it.
Walks(r) ==
    {[root |-> FALSE, kids |-> <<>>]} \cup
    {[root |-> TRUE, kids |-> ks] :
        ks \in UNION {[1..n -> Kids(r)] : n \in 0..MaxWalk}}

\* ---------------------------------------------------- status: the machine

\* The closure of the second filter_map of the listing: the name must
\* convert to a str, the path must be a directory (is_dir follows links)
\* and the name must not start with '.'.
IsConf(e) ==
    /\ Utf8Valid(e.name)
    /\ e.kind \in {"dir", "linkdir"}
    /\ ~StartsWith(e.name, Dot)

\* `.filter_map(|entry| entry.ok()).filter_map(..).collect()`
Collect(es) ==
    LET keep == SelectSeq(es, LAMBDA e : e.ok /\ IsConf(e))
    IN  [i \in DOMAIN keep |-> keep[i].name]

\* (mutant) the configurations stay in the order of the enumeration
Unsorted(s) == s

\* Vec::sort_by with the comparator StrCmp: a stable sort.
RECURSIVE SortBy(_)
SortBy(s) ==
    IF s = <<>> THEN <<>>
    ELSE LET rest == SortBy(SubSeq(s, 1, Len(s) - 1))
             x == s[Len(s)]
             n == Cardinality({i \in DOMAIN rest : StrCmp(rest[i], x) # "Greater"})
         IN  SubSeq(rest, 1, n) \o <<x>> \o SubSeq(rest, n + 1, Len(rest))

\* The match of print_status, arm by arm: a pattern Some(Status::X) matches
\* a status equal to X, Some(_) any other, None none.
MatchArm(status) ==
    IF ~status.some THEN "None"
    ELSE IF status.bits = {"INDEX_NEW"} THEN "INDEX_NEW"
    ELSE IF status.bits = {"INDEX_MODIFIED"} THEN "INDEX_MODIFIED"
    ELSE IF status.bits = {"INDEX_DELETED"} THEN "INDEX_DELETED"
    ELSE IF status.bits = {"WT_NEW"} THEN "WT_NEW"
    ELSE IF status.bits = {"WT_MODIFIED"} THEN "WT_MODIFIED"
    ELSE IF status.bits = {"WT_DELETED"} THEN "WT_DELETED"
    ELSE IF status.bits = {"IGNORED"} THEN "IGNORED"
    ELSE "Some(_)"

\* What each arm prints after the file name.
Label(arm) ==
    CASE arm = "INDEX_NEW" -> " [new]"
      [] arm = "INDEX_MODIFIED" -> " [modified]"
      [] arm = "INDEX_DELETED" -> " [deleted]"
      [] arm = "WT_NEW" -> " [untracked]"
      [] arm = "WT_MODIFIED" -> " [modified]"
      [] arm = "WT_DELETED" -> " [deleted]"
      [] arm = "IGNORED" -> " [ignored]"
      [] arm = "Some(_)" -> " [ok]"
      [] OTHER -> ""

\* The closure of the walk's second filter_map: strip_prefix(vault) always
\* succeeds (the walk starts below the vault); the status is None without a
\* repository, and `repo.status_file(rel_path).ok()` with one.
ToFileStatus(id, it) ==
    [id |-> id, utf8 |-> it.utf8,
     status |-> IF hasRepo /\ it.q.ok THEN Some(it.q.bits) ELSE None]

\* (mutant) the first entry is not skipped
WalkFilesNoSkip(w) ==
    LET rootItem == [k |-> IF w.root THEN "dir" ELSE "err", utf8 |-> TRUE,
                     q |-> DirQuery]
        all == <<[id |-> 0, it |-> rootItem]>> \o
               [i \in DOMAIN w.kids |-> [id |-> i, it |-> w.kids[i]]]
        oks == SelectSeq(all, LAMBDA x : x.it.k # "err")
    IN  [i \in DOMAIN oks |-> ToFileStatus(oks[i].id, oks[i].it)]

\* The pipeline of the walk: the errors are dropped, every entry left
\* becomes a FileStatus, and the first of them is skipped.
WalkFiles(w) ==
    LET rootItem == [k |-> IF w.root THEN "dir" ELSE "err", utf8 |-> TRUE,
                     q |-> DirQuery]
        all == <<[id |-> 0, it |-> rootItem]>> \o
               [i \in DOMAIN w.kids |-> [id |-> i, it |-> w.kids[i]]]
        oks == SelectSeq(all, LAMBDA x : x.it.k # "err")
        fss == [i \in DOMAIN oks |-> ToFileStatus(oks[i].id, oks[i].it)]
    IN  IF fss = <<>> THEN <<>> ELSE Tail(fss)

InitStatus ==
    /\ AddIdle
    /\ SyncIdle
    /\ PrintIdle
    /\ entries \in Listings
    /\ hasRepo \in BOOLEAN
    /\ stpc = "start"
    /\ confs = <<>>
    /\ ci = 0
    /\ walk = <<>>
    /\ found = <<>>
    /\ fi = 0
    /\ lines = <<>>
    /\ shown = <<>>
    /\ sterr = ""

\* (mutant) an entry of the vault that cannot be read is an error
StatusListStrict ==
    /\ UNCHANGED <<addVars, syncVars, pin, pout>>
    /\ stpc = "start"
    /\ \E io \in BOOLEAN :
        IF ~io \/ \E i \in DOMAIN entries : ~entries[i].ok
        THEN /\ stpc' = "err"
             /\ sterr' = IF io THEN "Failed to read directory entry"
                         ELSE "Failed to read vault"
             /\ UNCHANGED <<entries, hasRepo, confs, ci, walk, found, fi,
                            lines, shown>>
        ELSE /\ confs' = SortBy(Collect(entries))
             /\ stpc' = IF Collect(entries) = <<>> THEN "noconfs" ELSE "walk"
             /\ ci' = IF Collect(entries) = <<>> THEN 0 ELSE 1
             /\ UNCHANGED <<entries, hasRepo, walk, found, fi, lines, shown,
                            sterr>>

\* `fs::read_dir(vault)?`, the two filters, `if confs.is_empty()` and
\* `confs.sort_by(..)`.
StatusList ==
    /\ UNCHANGED <<addVars, syncVars, pin, pout>>
    /\ stpc = "start"
    /\ \E io \in BOOLEAN :
        IF ~io
        THEN /\ stpc' = "err"
             /\ sterr' = "Failed to read vault"
             /\ UNCHANGED <<entries, hasRepo, confs, ci, walk, found, fi,
                            lines, shown>>
        ELSE /\ confs' = SortBy(Collect(entries))
             /\ stpc' = IF Collect(entries) = <<>> THEN "noconfs" ELSE "walk"
             /\ ci' = IF Collect(entries) = <<>> THEN 0 ELSE 1
             /\ UNCHANGED <<entries, hasRepo, walk, found, fi, lines, shown,
                            sterr>>

\* One configuration: its header, the walk collected into `files`, and
\* "(empty)" when `files.is_empty()`.
StatusWalk ==
    /\ UNCHANGED <<addVars, syncVars, pin, pout>>
    /\ stpc = "walk"
    /\ \E w \in Walks(hasRepo) :
        /\ walk' = w
        /\ found' = WalkFiles(w)
        /\ shown' = Append(shown, [name |-> confs[ci],
                                   empty |-> WalkFiles(w) = <<>>])
        /\ stpc' = IF WalkFiles(w) = <<>> THEN "printed" ELSE "print"
        /\ fi' = IF WalkFiles(w) = <<>> THEN 0 ELSE 1
    /\ UNCHANGED <<entries, hasRepo, confs, ci, lines, sterr>>

\* One turn of `for file_status in files`: print_status converts the name
\* with to_str (an error when it is not UTF-8) and prints the line.
StatusPrintFile ==
    /\ UNCHANGED <<addVars, syncVars, pin, pout>>
    /\ stpc = "print"
    /\ IF ~found[fi].utf8
       THEN /\ stpc' = "err"
            /\ sterr' = "Failed to print file status"
            /\ UNCHANGED <<fi, lines>>
       ELSE /\ lines' = Append(lines, [id |-> found[fi].id,
                                       arm |-> MatchArm(found[fi].status),
                                       label |-> Label(MatchArm(found[fi].status))])
            /\ stpc' = IF fi = Len(found) THEN "printed" ELSE "print"
            /\ fi' = IF fi = Len(found) THEN fi ELSE fi + 1
    /\ UNCHANGED <<entries, hasRepo, confs, ci, walk, found, shown, sterr>>

\* The end of one turn of `for (conf_name, conf_path) in confs`: `files`
\* is dropped, and the loop goes on to the next configuration or status
\* returns Ok(()).
StatusNextConf ==
    /\ UNCHANGED <<addVars, syncVars, pin, pout>>
    /\ stpc = "printed"
    /\ walk' = <<>>
    /\ found' = <<>>
    /\ lines' = <<>>
    /\ fi' = 0
    /\ stpc' = IF ci = Len(confs) THEN "done" ELSE "walk"
    /\ ci' = IF ci = Len(confs) THEN ci ELSE ci + 1
    /\ UNCHANGED <<entries, hasRepo, confs, shown, sterr>>

NextStatus ==
    \/ StatusList
    \/ StatusWalk
    \/ StatusPrintFile
    \/ StatusNextConf

SpecStatus == InitStatus /\ [][NextStatus]_vars

\* ----------------------------------------------- print_status on its own

\* The flags of git2::Status.
Flags == {"INDEX_NEW", "INDEX_MODIFIED", "INDEX_DELETED", "INDEX_RENAMED",
          "INDEX_TYPECHANGE", "WT_NEW", "WT_MODIFIED", "WT_DELETED",
          "WT_TYPECHANGE", "WT_RENAMED", "IGNORED", "CONFLICTED"}

InitPrintStatus ==
    /\ AddIdle
    /\ SyncIdle
    /\ entries = <<>>
    /\ hasRepo = FALSE
    /\ stpc = "idle"
    /\ confs = <<>>
    /\ ci = 0
    /\ walk = <<>>
    /\ found = <<>>
    /\ fi = 0
    /\ lines = <<>>
    /\ shown = <<>>
    /\ sterr = ""
    /\ pin \in {None} \cup {Some(b) : b \in SUBSET Flags}
    /\ pout = "called"

\* print_status(file_status, conf_path), for a name that converts.
PrintStatus ==
    /\ pout = "called"
    /\ pout' = MatchArm(pin)
    /\ UNCHANGED <<addVars, syncVars, entries, hasRepo, stpc, confs, ci, walk,
                   found, fi, lines, shown, sterr, pin>>

NextPrintStatus == PrintStatus

SpecPrintStatus == InitPrintStatus /\ [][NextPrintStatus]_vars

\* ---------------------------------------------------- status: the claims

\* a is before b in byte-wise lexicographic order: at the first position
\* where they differ a has the smaller byte, or a is a proper prefix of b.
BytewiseBefore(a, b) ==
    \E k \in 1..(Len(b)) :
        /\ k <= Len(a) + 1
        /\ SubSeq(a, 1, k - 1) = SubSeq(b, 1, k - 1)
        /\ (k = Len(a) + 1 \/ a[k] < b[k])

\* The listing has been read and the configurations collected.
Listed == stpc \in {"walk", "print", "printed", "done", "noconfs"} \/
          (stpc = "err" /\ sterr = "Failed to print file status")

\* The names of the entries the listing keeps, as a set.
ConfNames == {entries[i].name : i \in {j \in DOMAIN entries :
                                        entries[j].ok /\ IsConf(entries[j])}}

\* C7: the configurations are in strictly ascending byte-wise order of
\* their names whatever the enumeration order was, they are exactly the
\* entries the listing kept, each once, and they are reported in that
\* order: at any moment the reported configurations are the first ones of
\* the sorted list, and all of them when status returns Ok.
C7_ConfsSortedBytewise ==
    Listed =>
        /\ \A i, j \in DOMAIN confs : i < j => BytewiseBefore(confs[i], confs[j])
        /\ {confs[i] : i \in DOMAIN confs} = ConfNames
        /\ Len(confs) = Cardinality(ConfNames)
        /\ Len(shown) <= Len(confs)
        /\ \A i \in DOMAIN shown : shown[i].name = confs[i]
        /\ stpc = "done" => Len(shown) = Len(confs)

\* status has reported two configurations that the filesystem enumerated
\* in descending order.
C7_Witness ==
    /\ stpc = "done"
    /\ Len(shown) = 2
    /\ Len(entries) = 2
    /\ BytewiseBefore(entries[2].name, entries[1].name)

\* C8 as claimed, read in the code's favour (an entry that could not be
\* read is not counted, a link to a directory may or may not count): every
\* immediate subdirectory of the vault whose name does not start with '.'
\* is a configuration, every configuration is such a directory, "no
\* configurations" is the outcome exactly when there is none, and a
\* configuration is marked empty exactly when its walk yielded no entry
\* besides its root.
C8_ConfsAreNonHiddenSubdirs ==
    Listed =>
        /\ \A i \in DOMAIN entries :
             (entries[i].ok /\ entries[i].kind = "dir"
                /\ ~StartsWith(entries[i].name, Dot))
             => \E j \in DOMAIN confs : confs[j] = entries[i].name
        /\ \A j \in DOMAIN confs : \E i \in DOMAIN entries :
             /\ entries[i].ok
             /\ entries[i].name = confs[j]
             /\ entries[i].kind \in {"dir", "linkdir"}
             /\ ~StartsWith(entries[i].name, Dot)
        /\ stpc = "noconfs" <=> confs = <<>>
        /\ stpc = "printed" =>
             (shown[Len(shown)].empty <=>
                \A i \in DOMAIN walk.kids : walk.kids[i].k = "err")

\* The StatusKind the stated precedence gives a set of flags: the first of
\* the enumerated flags that is set, index flags first, then working-tree
\* flags, then ignored; other-tracked when none of them is set.
Precedence == <<"INDEX_NEW", "INDEX_MODIFIED", "INDEX_DELETED", "WT_NEW",
                "WT_MODIFIED", "WT_DELETED", "IGNORED">>

KindByPrecedence(bits) ==
    IF \E i \in DOMAIN Precedence : Precedence[i] \in bits
    THEN Precedence[CHOOSE i \in DOMAIN Precedence :
                        /\ Precedence[i] \in bits
                        /\ \A j \in 1..(i - 1) : Precedence[j] \notin bits]
    ELSE "Some(_)"

\* C9: print_status tags every status (the mapping is total), and the arm
\* it takes for a status with flags is the one the precedence names: the
\* first enumerated flag that is set, other-tracked only when none is.
C9_KindFollowsPrecedence ==
    pout \notin {"idle", "called"} =>
        /\ pout \in {Precedence[i] : i \in DOMAIN Precedence} \cup {"Some(_)", "None"}
        /\ pin.some => pout = KindByPrecedence(pin.bits)
        /\ ~pin.some => pout = "None"

\* C10: a printed entry's status is absent exactly when no repository is
\* attached: with one every line carries one of the eight tags, whatever
\* the status query answered; without one every line is untagged.
C10_AbsentIffNoRepo ==
    \A i \in DOMAIN lines :
        /\ lines[i].arm = "None" <=> ~hasRepo
        /\ lines[i].label = "" <=> ~hasRepo

\* The positions of the entries below the root that the walk could read,
\* in the order of the walk.
ReadableKids ==
    SelectSeq([i \in DOMAIN walk.kids |-> i], LAMBDA i : walk.kids[i].k # "err")

\* C18: for every configuration the file list is exactly the readable
\* entries of the walk below the root, in the order of the walk: the root
\* is never in it and no readable entry is missing, whatever entries (the
\* root included) could not be read; and when the configuration was
\* printed without error, one line was printed for each of them.
C18_FilesAreReadableNonRootEntries ==
    stpc \in {"print", "printed"} =>
        /\ [i \in DOMAIN found |-> found[i].id] = ReadableKids
        /\ \A i \in DOMAIN found : found[i].id # 0
        /\ Len(lines) <= Len(found)
        /\ \A i \in DOMAIN lines : lines[i].id = found[i].id
        /\ stpc = "printed" => Len(lines) = Len(found)

\* a walk whose first entry below the root could not be read and whose
\* second is a file was printed: the one line is that of the file.
C18_Witness ==
    /\ stpc = "printed"
    /\ Len(walk.kids) = 2
    /\ walk.kids[1].k = "err"
    /\ walk.kids[2].k = "file"
    /\ Len(lines) = 1
    /\ lines[1].id = 2

\* C19: status fails only when the vault directory cannot be read, and
\* then nothing was reported, or when a file name cannot be printed; an
\* entry of the vault listing or of a walk that cannot be read is only left
\* out: the entries that could be read are all there, and the report goes
\* on to its end.
C19_OnlyVaultReadIsFatal ==
    /\ stpc = "err" <=> sterr # ""
    /\ sterr \in {"", "Failed to read vault", "Failed to print file status"}
    /\ sterr = "Failed to read vault" =>
         (confs = <<>> /\ shown = <<>> /\ lines = <<>> /\ ci = 0)
    /\ sterr = "Failed to print file status" =>
         (fi \in DOMAIN found /\ ~found[fi].utf8)
    /\ Listed => {confs[i] : i \in DOMAIN confs} = ConfNames
    /\ stpc \in {"print", "printed"} =>
         [i \in DOMAIN found |-> found[i].id] = ReadableKids
    /\ stpc = "done" => (Len(shown) = Len(confs) /\ ci = Len(confs))

\* the last configuration of a vault with an unreadable entry was printed,
\* its walk having met an unreadable entry too: the call is about to
\* return Ok.
C19_Witness ==
    /\ stpc = "printed"
    /\ ci = Len(confs)
    /\ \E i \in DOMAIN entries : ~entries[i].ok
    /\ \E i \in DOMAIN walk.kids : walk.kids[i].k = "err"
    /\ Len(lines) = 1

\* This invocation follows a sync that committed: the last commit of the
\* repository it was called on is one of sync's.
AfterCommittedSync ==
    s0.n >= 2 /\ s0.commits[s0.n].msg = "Sync dotfiles"

\* C22: a sync that immediately follows a sync that committed, with the
\* working tree unchanged, finds an empty status set, ends with "no
\* changes" (or fails reading the index or the status) and creates no
\* commit, whatever files the repository holds.
C22_SecondSyncIsNoOp ==
    AfterCommittedSync =>
        /\ s0.statuses = {}
        /\ spc \in {"start", "status", "nochanges", "err"}
        /\ commits = s0.commits
        /\ refs = s0.refs
        /\ headRef = s0.headRef

\* C23: every commit sync creates has a tree that differs from the tree of
\* its parent: with a non-empty status set, staging all changes yields a
\* tree other than HEAD's.
C23_NoEmptyCommit ==
    \A i \in (s0.n + 1)..Len(commits) :
        commits[i].tree # TreeOf(commits, commits[i].parent)

====
